---- MODULE Spec2Model ----
(***************************************************************************)
(* Model of comick-csv-to-mal (src/index.ts): the CSV -> MyAnimeList XML   *)
(* converter.  JavaScript values are tagged records [t, v]: a string is    *)
(* [t |-> "string", v |-> <<chars>>], undefined is [t |-> "undefined"],    *)
(* and an object or function value (what a property lookup that falls     *)
(* through to Object.prototype yields) is [t |-> "function"].              *)
(***************************************************************************)
EXTENDS Naturals, Sequences, FiniteSets, TLC

VARIABLES pc, inputCsv, fileExists, rowsSeen, results, stdout, stderr,
          exitCalls, xmlContent, caught, written, fnName, fnArg, fnRet

vars == <<pc, inputCsv, fileExists, rowsSeen, results, stdout, stderr,
          exitCalls, xmlContent, caught, written, fnName, fnArg, fnRet>>

progVars == <<pc, inputCsv, fileExists, rowsSeen, results, stdout, stderr,
              exitCalls, xmlContent, caught, written>>

fnVars == <<fnName, fnArg, fnRet>>

----------------------------------------------------------------------------
(* Bounds of the model *)

MaxRows == 3

MaxDateTokens == 6

MaxUrlTokens == 5

----------------------------------------------------------------------------
(* JavaScript values *)

Str(s) == [t |-> "string", v |-> s]

undefined == [t |-> "undefined", v |-> <<>>]

Fn(name) == [t |-> "function", v |-> name]

IsString(x) == x.t = "string"

\* ToBoolean: undefined and "" are falsy; non-empty strings and objects truthy
Truthy(x) == \/ x.t = "function"
             \/ x.t = "string" /\ x.v # <<>>

\* a || b
OrElse(a, b) == IF Truthy(a) THEN a ELSE b

Digits == {"0", "1", "2", "3", "4", "5", "6", "7", "8", "9"}

\* \d
IsDigit(c) == c \in Digits

\* \s (the characters of it that the inputs use)
IsSpace(c) == c \in {" ", "\t", "\n", "\r"}

AllDigits(s) == \A i \in 1..Len(s) : IsDigit(s[i])

UpperCase == <<"A","B","C","D","E","F","G","H","I","J","K","L","M",
               "N","O","P","Q","R","S","T","U","V","W","X","Y","Z">>

LowerCase == <<"a","b","c","d","e","f","g","h","i","j","k","l","m",
               "n","o","p","q","r","s","t","u","v","w","x","y","z">>

LowerChar(c) == IF \E i \in 1..Len(UpperCase) : UpperCase[i] = c
                THEN LowerCase[CHOOSE i \in 1..Len(UpperCase) : UpperCase[i] = c]
                ELSE c

\* String.prototype.toLowerCase
toLowerCase(s) == [i \in 1..Len(s) |-> LowerChar(s[i])]

\* s.replace(/\s+/g, "")
stripWhitespace(s) == SelectSeq(s, LAMBDA c : ~IsSpace(c))

RECURSIVE trimStart(_)
trimStart(s) == IF s # <<>> /\ IsSpace(Head(s)) THEN trimStart(Tail(s)) ELSE s

RECURSIVE trimEnd(_)
trimEnd(s) == IF s # <<>> /\ IsSpace(s[Len(s)])
              THEN trimEnd(SubSeq(s, 1, Len(s) - 1)) ELSE s

\* String.prototype.trim
trim(s) == trimEnd(trimStart(s))

StartsWithAt(s, i, p) == /\ i + Len(p) - 1 <= Len(s)
                         /\ SubSeq(s, i, i + Len(p) - 1) = p

EndsWith(s, p) == /\ Len(p) <= Len(s)
                  /\ SubSeq(s, Len(s) - Len(p) + 1, Len(s)) = p

----------------------------------------------------------------------------
(* String literals of the program *)

sReading == <<"R","e","a","d","i","n","g">>

sCompleted == <<"C","o","m","p","l","e","t","e","d">>

sOnHold == <<"O","n","-","H","o","l","d">>

sDropped == <<"D","r","o","p","p","e","d">>

sPlanToRead == <<"P","l","a","n"," ","t","o"," ","R","e","a","d">>

sZeroDate == <<"0","0","0","0","-","0","0","-","0","0">>

sManga == <<"m","a","n","g","a","/">>

sCsv == <<".","c","s","v">>

sMalXml == <<"_","m","a","l",".","x","m","l">>

sCdataOpen == <<"<","!","[","C","D","A","T","A","[">>

sCdataClose == <<"]","]",">">>

kReading == <<"r","e","a","d","i","n","g">>

kCompleted == <<"c","o","m","p","l","e","t","e","d">>

kOnhold == <<"o","n","h","o","l","d">>

kDropped == <<"d","r","o","p","p","e","d">>

kPlantoread == <<"p","l","a","n","t","o","r","e","a","d">>

----------------------------------------------------------------------------
(* extractMalId *)

\* DigitRun with the capture written (\d): one digit only
DigitRun_one(s, i) == <<s[i]>>

\* the maximal digit run of s from position i: (\d+), greedy
RECURSIVE DigitRun(_, _)
DigitRun(s, i) == IF i <= Len(s) /\ IsDigit(s[i])
                  THEN <<s[i]>> \o DigitRun(s, i + 1)
                  ELSE <<>>

\* MAL_ID_REGEX = /manga\/(\d+)/ tried at position i
MalIdMatchesAt(s, i) == /\ StartsWithAt(s, i, sManga)
                        /\ i + Len(sManga) <= Len(s)
                        /\ IsDigit(s[i + Len(sManga)])

\* url.match(MAL_ID_REGEX): the leftmost match's groups <<whole, $1>>, or <<>> for null
RECURSIVE MalIdExecFrom(_, _)
MalIdExecFrom(s, i) ==
    IF i > Len(s) THEN <<>>
    ELSE IF MalIdMatchesAt(s, i)
         THEN LET d == DigitRun(s, i + Len(sManga)) IN <<sManga \o d, d>>
         ELSE MalIdExecFrom(s, i + 1)

MAL_ID_REGEX(s) == MalIdExecFrom(s, 1)

extractMalId(url) ==
    LET match == IF IsString(url) THEN MAL_ID_REGEX(url.v) ELSE <<>>
        group == IF match = <<>> THEN undefined ELSE Str(match[2])
    IN  OrElse(group, Str(<<"0">>))

----------------------------------------------------------------------------
(* parseDate *)

\* DATE_FORMATS: each /^(\d{a})-(\d{b})-(\d{c})$/ is given by its widths <<a, b, c>>
DATE_FORMATS == << <<4, 2, 2>>, <<2, 2, 4>> >>

\* dateStr.match(fmt): the groups <<$1, $2, $3>>, or <<>> for null
DateExec(s, fmt) ==
    LET a == fmt[1]
        b == fmt[2]
        c == fmt[3]
        g1 == SubSeq(s, 1, a)
        g2 == SubSeq(s, a + 2, a + b + 1)
        g3 == SubSeq(s, a + b + 3, a + b + c + 2)
    IN  IF /\ Len(s) = a + b + c + 2
           /\ s[a + 1] = "-"
           /\ s[a + b + 2] = "-"
           /\ AllDigits(g1) /\ AllDigits(g2) /\ AllDigits(g3)
        THEN <<g1, g2, g3>>
        ELSE <<>>

RECURSIVE parseDateFrom(_, _)
parseDateFrom(s, k) ==
    IF k > Len(DATE_FORMATS) THEN Str(sZeroDate)
    ELSE LET match == DateExec(s, DATE_FORMATS[k])
         IN  IF match # <<>>
             THEN Str(match[1] \o <<"-">> \o match[2] \o <<"-">> \o match[3])
             ELSE parseDateFrom(s, k + 1)

parseDate(dateStr) ==
    IF ~Truthy(dateStr) THEN Str(sZeroDate) ELSE parseDateFrom(dateStr.v, 1)

----------------------------------------------------------------------------
(* validateStatus *)

\* the own properties of the VALID_STATUSES object literal
VALID_STATUSES_OWN == {sReading, sCompleted, sOnHold, sDropped, sPlanToRead}

\* property names every object literal inherits from Object.prototype
ObjectPrototypeKeys ==
    { <<"c","o","n","s","t","r","u","c","t","o","r">>,
      <<"t","o","S","t","r","i","n","g">>,
      <<"v","a","l","u","e","O","f">>,
      <<"h","a","s","O","w","n","P","r","o","p","e","r","t","y">>,
      <<"_","_","p","r","o","t","o","_","_">> }

\* VALID_STATUSES[key]
VALID_STATUSES(key) ==
    IF key \in VALID_STATUSES_OWN THEN Str(key)
    ELSE IF key \in ObjectPrototypeKeys THEN Fn(key)
    ELSE undefined

validateStatus(status) ==
    OrElse(VALID_STATUSES(OrElse(status, Str(<<>>)).v), Str(sPlanToRead))

----------------------------------------------------------------------------
(* calculateStatusCounts and buildXml *)

\* acc[status] = (acc[status] || 0) + 1
CountInto(acc, status) ==
    [k \in (DOMAIN acc) \cup {status} |->
        IF k = status
        THEN (IF k \in DOMAIN acc THEN acc[k] ELSE 0) + 1
        ELSE acc[k]]

\* entry.my_status.toLowerCase().replace(/\s+/g, "")
StatusKey(my_status) == stripWhitespace(toLowerCase(my_status.v))

\* entries.reduce(..., {}): [ok |-> FALSE] when entry.my_status.toLowerCase is
\* not a function (my_status is not a string) and the callback throws TypeError
RECURSIVE reduceCounts(_, _, _)
reduceCounts(entries, i, acc) ==
    IF i > Len(entries) THEN [ok |-> TRUE, counts |-> acc]
    ELSE IF ~IsString(entries[i].my_status) THEN [ok |-> FALSE, counts |-> acc]
    ELSE reduceCounts(entries, i + 1, CountInto(acc, StatusKey(entries[i].my_status)))

calculateStatusCounts(entries) == reduceCounts(entries, 1, <<>>)

\* statusCounts.<key> || 0
CountOrZero(counts, key) == IF key \in DOMAIN counts THEN counts[key] ELSE 0

\* the object handed to builder.buildObject
xmlObject(entries, statusCounts) ==
    [ myinfo |-> [ user_total_manga      |-> Len(entries),
                   user_total_reading    |-> CountOrZero(statusCounts, kReading),
                   user_total_completed  |-> CountOrZero(statusCounts, kCompleted),
                   user_total_onhold     |-> CountOrZero(statusCounts, kOnhold),
                   user_total_dropped    |-> CountOrZero(statusCounts, kDropped),
                   user_total_plantoread |-> CountOrZero(statusCounts, kPlantoread) ],
      manga  |-> entries ]

\* buildXml: [ok |-> FALSE] when calculateStatusCounts throws
buildXml(entries) ==
    LET sc == calculateStatusCounts(entries)
    IN  IF sc.ok THEN [ok |-> TRUE, xml |-> <<xmlObject(entries, sc.counts)>>]
        ELSE [ok |-> FALSE, xml |-> <<>>]

----------------------------------------------------------------------------
(* validateCsvRow and the row mapping of step *)

\* the message of the Error validateCsvRow throws, or <<>> when it returns
validateCsvRow(row) ==
    IF ~Truthy(row.mal) THEN <<"Missing 'mal' field in CSV row">>
    ELSE IF ~Truthy(row.title) THEN <<"Missing 'title' field in CSV row">>
    ELSE IF ~Truthy(VALID_STATUSES(OrElse(row.type, Str(<<>>)).v))
         THEN <<"Invalid status: ">>
    ELSE <<>>

\* the entry step pushes for a row
MangaEntry(row) ==
    [ manga_mangadb_id     |-> extractMalId(row.mal),
      manga_title          |-> Str(sCdataOpen \o row.title.v \o sCdataClose),
      manga_volumes        |-> Str(<<"0">>),
      manga_chapters       |-> Str(<<"0">>),
      my_id                |-> Str(<<"0">>),
      my_read_volumes      |-> Str(<<"0">>),
      my_read_chapters     |-> OrElse(row.read, Str(<<"0">>)),
      my_start_date        |-> parseDate(row.last_read),
      my_finish_date       |-> parseDate(row.last_read),
      my_scanalation_group |-> Str(<<>>),
      my_score             |-> OrElse(row.rating, Str(<<"0">>)),
      my_storage           |-> Str(<<>>),
      my_status            |-> validateStatus(row.type),
      my_comments          |-> Str(<<>>),
      my_times_read        |-> Str(<<"0">>),
      my_tags              |-> Str(<<>>),
      my_reread_value      |-> Str(<<"L","o","w">>),
      update_on_import     |-> Str(<<"1">>) ]

\* value.replace(/^"|"$/g, ""): one leading and one trailing quote removed
stripQuotes(s) ==
    LET a == IF s # <<>> /\ Head(s) = "\"" THEN Tail(s) ELSE s
    IN  IF a # <<>> /\ a[Len(a)] = "\"" THEN SubSeq(a, 1, Len(a) - 1) ELSE a

\* transform: applied by the parser to every value present in a row
transform(value) == IF IsString(value) THEN Str(stripQuotes(trim(value.v))) ELSE value

CsvFields == {"mal", "title", "type", "read", "rating", "last_read"}

rowData(raw) == [f \in CsvFields |-> transform(raw[f])]

\* inputCsv.replace(/\.csv$/, "_mal.xml")
outputXmlPath(path) ==
    IF EndsWith(path.v, sCsv)
    THEN Str(SubSeq(path.v, 1, Len(path.v) - Len(sCsv)) \o sMalXml)
    ELSE path

----------------------------------------------------------------------------
(* Inputs *)

sUrl42 == <<"h","t","t","p","s",":","/","/","x","/","m","a","n","g","a","/","4","2">>

sFooBar == <<"F","o","o",","," ","B","a","r">>

sConstructor == <<"c","o","n","s","t","r","u","c","t","o","r">>

BaseRow ==
    [ mal       |-> Str(sUrl42),
      title     |-> Str(sFooBar),
      type      |-> Str(sReading),
      read      |-> Str(<<"5">>),
      rating    |-> Str(<<"8">>),
      last_read |-> Str(<<"2","0","2","3","-","0","1","-","1","5">>) ]

\* the rows the parser hands to step, before transform: the base row with one
\* column varied, and a row with the three optional columns missing or empty
RawRows ==
    {BaseRow}
    \cup {[BaseRow EXCEPT !.type = Str(s)] :
            s \in {sCompleted, sOnHold, sDropped, sPlanToRead, sConstructor, kReading, <<>>}}
    \cup {[BaseRow EXCEPT !.mal = x] : x \in {Str(<<>>), Str(<<"4","2">>)}}
    \cup {[BaseRow EXCEPT !.title = Str(s)] : s \in {<<>>, <<"\"","F","o","o","\""," ">>}}
    \cup {[BaseRow EXCEPT !.last_read = Str(<<"1","5","-","0","1","-","2","0","2","3">>)]}
    \cup {[BaseRow EXCEPT !.read = Str(<<>>), !.rating = undefined, !.last_read = undefined]}

sListCsv == <<"l","i","s","t",".","c","s","v">>

sListTxt == <<"l","i","s","t",".","t","x","t">>

\* process.argv[2]
Paths == {undefined, Str(<<>>), Str(sListCsv), Str(sListTxt)}

----------------------------------------------------------------------------
(* The program: main, processFile, step, complete *)

Msg(text, arg) == [text |-> text, arg |-> arg]

\* if (!inputCsv)
MissingArg(path) == ~Truthy(path)

\* FileNotFound with the existence check left out
FileNotFound_never(path, exists) == FALSE

\* if (!fs.existsSync(inputCsv))
FileNotFound(path, exists) == ~exists

\* NoComics with the empty check left out
NoComics_never(entries) == FALSE

\* if (results.length === 0)
NoComics(entries) == Len(entries) = 0

\* onWriteError ending the process as the catch block of processFile does
onWriteError_exit(message) ==
    [ stderr |-> <<[text |-> "Error writing XML file:", arg |-> [t |-> "string", v |-> message]]>>,
      exit |-> <<1>> ]

\* the catch block of complete: what it prints and the process.exit calls it makes
onWriteError(message) ==
    [ stderr |-> <<Msg("Error writing XML file:", Str(message))>>, exit |-> <<>> ]

\* the catch block of processFile
onProcessError(message) ==
    [ stderr |-> <<Msg("Error processing file:", Str(message))>>, exit |-> <<1>> ]

Init ==
    /\ pc = "main"
    /\ inputCsv \in Paths
    /\ fileExists \in BOOLEAN
    /\ MissingArg(inputCsv) => ~fileExists
    /\ rowsSeen = <<>>
    /\ results = <<>>
    /\ stdout = <<>>
    /\ stderr = <<>>
    /\ exitCalls = <<>>
    /\ xmlContent = <<>>
    /\ caught = <<>>
    /\ written = <<>>
    /\ fnName = "none"
    /\ fnArg = undefined
    /\ fnRet = <<>>

mainMissingArg ==
    /\ pc = "main"
    /\ MissingArg(inputCsv)
    /\ stderr' = stderr \o <<Msg("Please provide a CSV file path", undefined),
                             Msg("Usage: bun index.ts <csv-file-path>", undefined)>>
    /\ exitCalls' = Append(exitCalls, 1)
    /\ pc' = "exited"
    /\ UNCHANGED <<inputCsv, fileExists, rowsSeen, results, stdout, xmlContent,
                   caught, written, fnVars>>

mainFileNotFound ==
    /\ pc = "main"
    /\ ~MissingArg(inputCsv)
    /\ FileNotFound(inputCsv, fileExists)
    /\ stderr' = Append(stderr, Msg("Error: File not found", undefined))
    /\ exitCalls' = Append(exitCalls, 1)
    /\ pc' = "exited"
    /\ UNCHANGED <<inputCsv, fileExists, rowsSeen, results, stdout, xmlContent,
                   caught, written, fnVars>>

mainProcessFile ==
    /\ pc = "main"
    /\ ~MissingArg(inputCsv)
    /\ ~FileNotFound(inputCsv, fileExists)
    /\ pc' = "processFile"
    /\ UNCHANGED <<inputCsv, fileExists, rowsSeen, results, stdout, stderr,
                   exitCalls, xmlContent, caught, written, fnVars>>

\* processFile: the stream is opened and handed to the parser
processFile ==
    /\ pc = "processFile"
    /\ results' = <<>>
    /\ pc' = "parsing"
    /\ UNCHANGED <<inputCsv, fileExists, rowsSeen, stdout, stderr, exitCalls,
                   xmlContent, caught, written, fnVars>>

\* processFile: createReadStream or Papa.parse throws synchronously
processFileCatch ==
    /\ pc = "processFile"
    /\ LET h == onProcessError(<<>>)
       IN  /\ stderr' = stderr \o h.stderr
           /\ exitCalls' = exitCalls \o h.exit
    /\ pc' = "exited"
    /\ UNCHANGED <<inputCsv, fileExists, rowsSeen, results, stdout, xmlContent,
                   caught, written, fnVars>>

\* the step callback, for one parsed row
step ==
    /\ pc = "parsing"
    /\ Len(rowsSeen) < MaxRows
    /\ \E raw \in RawRows :
         LET data == rowData(raw)
             error == validateCsvRow(data)
         IN  /\ rowsSeen' = Append(rowsSeen, data)
             /\ IF error = <<>>
                THEN /\ results' = Append(results, MangaEntry(data))
                     /\ UNCHANGED stderr
                ELSE /\ stderr' = Append(stderr, Msg("Validation error for row:", data.type))
                     /\ UNCHANGED results
    /\ UNCHANGED <<pc, inputCsv, fileExists, stdout, exitCalls, xmlContent,
                   caught, written, fnVars>>

\* the complete callback, once the parser has delivered every row
complete ==
    /\ pc = "parsing"
    /\ pc' = "done"
    /\ LET total == Msg("Total comics:", undefined)
           outputXml == outputXmlPath(inputCsv)
           built == buildXml(results)
       IN  IF NoComics(results)
           THEN /\ stdout' = Append(stdout, total)
                /\ stderr' = Append(stderr, Msg("No comics to process", undefined))
                /\ UNCHANGED <<exitCalls, xmlContent, caught, written>>
           ELSE IF ~built.ok
           THEN LET h == onWriteError(<<"TypeError">>)
                IN  /\ stdout' = stdout \o <<total, Msg("Building XML for", undefined)>>
                    /\ caught' = <<"TypeError">>
                    /\ stderr' = stderr \o h.stderr
                    /\ exitCalls' = exitCalls \o h.exit
                    /\ UNCHANGED <<xmlContent, written>>
           ELSE /\ xmlContent' = built.xml
                /\ \E writeOk \in BOOLEAN :
                     IF writeOk
                     THEN /\ written' = Append(written,
                                [path |-> outputXml, content |-> built.xml[1]])
                          /\ stdout' = stdout \o
                                <<total, Msg("Building XML for", undefined),
                                  Msg("Status counts:", undefined),
                                  Msg("Generating XML...", undefined),
                                  Msg("MAL XML file created successfully:", outputXml)>>
                          /\ UNCHANGED <<stderr, exitCalls, caught>>
                     ELSE LET h == onWriteError(<<"EACCES">>)
                          IN  /\ stdout' = stdout \o
                                    <<total, Msg("Building XML for", undefined),
                                      Msg("Status counts:", undefined),
                                      Msg("Generating XML...", undefined)>>
                              /\ caught' = <<"EACCES">>
                              /\ stderr' = stderr \o h.stderr
                              /\ exitCalls' = exitCalls \o h.exit
                              /\ UNCHANGED written
    /\ UNCHANGED <<inputCsv, fileExists, rowsSeen, results, fnVars>>

Next ==
    \/ mainMissingArg
    \/ mainFileNotFound
    \/ mainProcessFile
    \/ processFile
    \/ processFileCatch
    \/ step
    \/ complete

Spec == Init /\ [][Next]_vars

----------------------------------------------------------------------------
(* The three normalising functions applied to bounded sets of inputs *)

\* the strings made of at most n tokens
RECURSIVE Words(_, _)
Words(tokens, n) ==
    IF n = 0 THEN {<<>>}
    ELSE LET W == Words(tokens, n - 1)
         IN  W \cup {w \o tok : w \in W, tok \in tokens}

DateTokens == {<<"2","0">>, <<"1","5">>, <<"-">>, <<"1">>, <<"x">>}

UrlTokens == {sManga, <<"m","a","n","g","a">>, <<"/">>, <<"4">>, <<"2">>, <<"x">>}

StatusInputs ==
    VALID_STATUSES_OWN \cup ObjectPrototypeKeys
    \cup {kReading, kCompleted, kOnhold, kDropped, kPlantoread,
          <<"R","E","A","D","I","N","G">>, <<"O","n"," ","H","o","l","d">>,
          <<"O","n","H","o","l","d">>, <<"R","e","a","d","i","n","g"," ">>,
          <<"P","l","a","n","t","o","R","e","a","d">>, <<"x">>}

CommonInputs ==
    {undefined, Str(<<>>), Str(sUrl42), BaseRow.last_read}
    \cup {Str(s) : s \in StatusInputs}

FnInputs(f) ==
    CommonInputs
    \cup (IF f = "parseDate" THEN {Str(w) : w \in Words(DateTokens, MaxDateTokens)}
          ELSE IF f = "extractMalId" THEN {Str(w) : w \in Words(UrlTokens, MaxUrlTokens)}
          ELSE {})

FnInit ==
    /\ pc = "unit"
    /\ inputCsv = undefined
    /\ fileExists = FALSE
    /\ rowsSeen = <<>>
    /\ results = <<>>
    /\ stdout = <<>>
    /\ stderr = <<>>
    /\ exitCalls = <<>>
    /\ xmlContent = <<>>
    /\ caught = <<>>
    /\ written = <<>>
    /\ fnName \in {"parseDate", "validateStatus", "extractMalId"}
    /\ fnArg \in FnInputs(fnName)
    /\ fnRet = <<>>

callParseDate ==
    /\ fnName = "parseDate"
    /\ fnRet = <<>>
    /\ fnRet' = <<parseDate(fnArg)>>
    /\ UNCHANGED <<progVars, fnName, fnArg>>

callValidateStatus ==
    /\ fnName = "validateStatus"
    /\ fnRet = <<>>
    /\ fnRet' = <<validateStatus(fnArg)>>
    /\ UNCHANGED <<progVars, fnName, fnArg>>

callExtractMalId ==
    /\ fnName = "extractMalId"
    /\ fnRet = <<>>
    /\ fnRet' = <<extractMalId(fnArg)>>
    /\ UNCHANGED <<progVars, fnName, fnArg>>

FnNext ==
    \/ callParseDate
    \/ callValidateStatus
    \/ callExtractMalId

FnSpec == FnInit /\ [][FnNext]_vars

Returned(f) == fnName = f /\ fnRet # <<>>

----------------------------------------------------------------------------
(* What the claims are stated in *)

\* the MangaStatus type
MangaStatus == {sReading, sCompleted, sOnHold, sDropped, sPlanToRead}

DashDigitShape(s, dashes) ==
    /\ Len(s) = 10
    /\ \A i \in 1..10 : IF i \in dashes THEN s[i] = "-" ELSE IsDigit(s[i])

\* "YYYY-MM-DD"
IsYearFirst(s) == DashDigitShape(s, {5, 8})

\* "DD-MM-YYYY"
IsDayFirst(s) == DashDigitShape(s, {3, 6})

YearFirstOfDayFirst(s) ==
    SubSeq(s, 7, 10) \o <<"-">> \o SubSeq(s, 4, 5) \o <<"-">> \o SubSeq(s, 1, 2)

\* the positions of s where p is followed by a digit
SegmentStarts(s, p) ==
    {i \in 1..Len(s) : /\ i + Len(p) <= Len(s)
                       /\ SubSeq(s, i, i + Len(p) - 1) = p
                       /\ IsDigit(s[i + Len(p)])}

\* the maximal run of digits of s that starts at position j (a digit)
DigitsFrom(s, j) ==
    LET e == CHOOSE e \in j..Len(s) :
                 /\ \A k \in j..e : IsDigit(s[k])
                 /\ e = Len(s) \/ ~IsDigit(s[e + 1])
    IN  SubSeq(s, j, e)

Least(S) == CHOOSE i \in S : \A j \in S : i <= j

sSlashManga == <<"/">> \o sManga

Printed(log, text) == \E i \in 1..Len(log) : log[i].text = text

SuccessPrinted == Printed(stdout, "MAL XML file created successfully:")

\* a row the strict validation is to accept
CanonicalRow(row) ==
    /\ IsString(row.mal) /\ row.mal.v # <<>>
    /\ IsString(row.title) /\ row.title.v # <<>>
    /\ IsString(row.type) /\ row.type.v \in MangaStatus

----------------------------------------------------------------------------
(* The claims *)

\* C1: parseDate returns the date with the 4-digit year first, "YYYY-MM-DD",
\* for an input of either accepted shape, and "0000-00-00" for any other input.
C1_ParseDateYearFirst ==
    Returned("parseDate") =>
        fnRet[1] = IF IsString(fnArg) /\ IsYearFirst(fnArg.v) THEN fnArg
                   ELSE IF IsString(fnArg) /\ IsDayFirst(fnArg.v)
                        THEN Str(YearFirstOfDayFirst(fnArg.v))
                   ELSE Str(sZeroDate)

\* C2: validateStatus returns the input when it is one of the five canonical
\* values and "Plan to Read" for every other input, names of inherited object
\* properties included.
C2_ValidateStatusCanonical ==
    Returned("validateStatus") =>
        /\ IsString(fnRet[1]) /\ fnRet[1].v \in MangaStatus
        /\ fnRet[1] = IF IsString(fnArg) /\ fnArg.v \in MangaStatus
                      THEN fnArg ELSE Str(sPlanToRead)

\* C3 as stated: extractMalId returns the digits of a "/manga/<digits>" segment,
\* and "0" for an input without one, "manga/<digits>" with no "/" before it included.
C3_SlashMangaSegment ==
    Returned("extractMalId") =>
        IF IsString(fnArg) /\ SegmentStarts(fnArg.v, sSlashManga) # {}
        THEN \E i \in SegmentStarts(fnArg.v, sSlashManga) :
                fnRet[1] = Str(DigitsFrom(fnArg.v, i + Len(sSlashManga)))
        ELSE fnRet[1] = Str(<<"0">>)

\* C3 amended: extractMalId returns the maximal digit run that follows the
\* leftmost "manga/" that a digit follows, whatever precedes it, and "0" for
\* an input with no "manga/<digit>" (undefined and the empty string included).
C3_MangaDigits ==
    Returned("extractMalId") =>
        IF IsString(fnArg) /\ SegmentStarts(fnArg.v, sManga) # {}
        THEN fnRet[1] = Str(DigitsFrom(fnArg.v,
                               Least(SegmentStarts(fnArg.v, sManga)) + Len(sManga)))
        ELSE fnRet[1] = Str(<<"0">>)

C3_Witness ==
    /\ Returned("extractMalId")
    /\ fnArg = Str(<<"x", "/">> \o sManga \o <<"4", "2">>)
    /\ fnRet[1] = Str(<<"4", "2">>)

\* C4: in the document buildXml returns, the five status totals sum to
\* user_total_manga, which is the number of records.
C4_TotalsSumToTotal ==
    xmlContent # <<>> =>
        LET info == xmlContent[1].myinfo
        IN  /\ info.user_total_manga = Len(results)
            /\ info.user_total_reading + info.user_total_completed
                 + info.user_total_onhold + info.user_total_dropped
                 + info.user_total_plantoread = info.user_total_manga

\* C5: the record sequence holds exactly one record for each row seen so far
\* whose mal and title are non-empty and whose type is one of the five canonical
\* statuses, in input order; every other row is skipped with one diagnostic, and
\* the run is not aborted.
C5_InvalidRowsSkipped ==
    pc \in {"parsing", "done"} =>
        LET valid == SelectSeq(rowsSeen, CanonicalRow)
            skipped == SelectSeq(rowsSeen, LAMBDA r : ~CanonicalRow(r))
            diagnostics == SelectSeq(stderr,
                               LAMBDA m : m.text = "Validation error for row:")
        IN  /\ results = [i \in 1..Len(valid) |-> MangaEntry(valid[i])]
            /\ Len(diagnostics) = Len(skipped)
            /\ exitCalls = <<>>

\* C6: once the input has finished with no record, the notice is printed, no
\* file is written, no success confirmation is printed and process.exit is not
\* called; a file is written only when there is at least one record.
C6_ZeroValidRows ==
    /\ (pc = "done" /\ results = <<>>) =>
          /\ Printed(stderr, "No comics to process")
          /\ written = <<>>
          /\ ~SuccessPrinted
          /\ exitCalls = <<>>
    /\ written # <<>> => Len(results) >= 1

C6_Witness ==
    /\ pc = "done"
    /\ results = <<>>
    /\ Len(rowsSeen) >= 2
    /\ Printed(stderr, "No comics to process")

\* C7: a failure of buildXml or of the write in complete is reported, with no
\* success confirmation and no process.exit; the success confirmation is printed
\* only with the file written under the path it names, and the file is written
\* only by complete, holding the records of every row processed.
C7_WriteFailure ==
    /\ caught # <<>> =>
          /\ pc = "done"
          /\ Printed(stderr, "Error writing XML file:")
          /\ ~SuccessPrinted
          /\ written = <<>>
          /\ exitCalls = <<>>
    /\ SuccessPrinted =>
          /\ Len(written) = 1
          /\ stdout[Len(stdout)].arg = written[1].path
    /\ written # <<>> =>
          /\ pc = "done"
          /\ written[1].content.manga = results

C7_Witness ==
    /\ pc = "done"
    /\ caught = <<"EACCES">>
    /\ xmlContent # <<>>
    /\ Printed(stderr, "Error writing XML file:")

\* C8: with the path argument missing, or the path not existing, the error is
\* reported and process.exit(1) is called before processFile is entered: no row
\* is processed and no file is written.
C8_CliGuards ==
    (inputCsv \in {undefined, Str(<<>>)} \/ ~fileExists) =>
        /\ pc \in {"main", "exited"}
        /\ rowsSeen = <<>> /\ results = <<>> /\ written = <<>>
        /\ pc = "exited" =>
              /\ exitCalls = <<1>>
              /\ stderr[1].text = IF inputCsv \in {undefined, Str(<<>>)}
                                  THEN "Please provide a CSV file path"
                                  ELSE "Error: File not found"

C8_Witness ==
    /\ pc = "exited"
    /\ inputCsv = Str(sListCsv)
    /\ ~fileExists
    /\ exitCalls = <<1>>

\* C9: the record of every row that passes validateCsvRow has both dates equal
\* to parseDate(last_read), the id extractMalId(mal), read chapters and score the
\* row's read and rating or "0" when empty, the status the row's type, and the
\* title in CDATA markers.
C9_RowMapping ==
    LET passed == SelectSeq(rowsSeen, LAMBDA r : validateCsvRow(r) = <<>>)
    IN  /\ Len(results) = Len(passed)
        /\ \A i \in 1..Len(results) :
              LET e == results[i]
                  row == passed[i]
              IN  /\ e.my_start_date = parseDate(row.last_read)
                  /\ e.my_finish_date = e.my_start_date
                  /\ e.manga_mangadb_id = extractMalId(row.mal)
                  /\ e.my_read_chapters =
                        IF row.read \in {undefined, Str(<<>>)} THEN Str(<<"0">>) ELSE row.read
                  /\ e.my_score =
                        IF row.rating \in {undefined, Str(<<>>)} THEN Str(<<"0">>) ELSE row.rating
                  /\ e.my_status = row.type
                  /\ e.manga_title = Str(sCdataOpen \o row.title.v \o sCdataClose)

\* C10: a written output path is never the input path.
C10_OutputNotInput ==
    \A i \in 1..Len(written) : written[i].path # inputCsv

====
